---- MODULE Spec2Model ----
(***************************************************************************)
(* radare2-mcp, src/r2_mcp.c: a line-delimited JSON-RPC ("MCP") server     *)
(* over stdin/stdout in front of a radare2 core.                           *)
(*                                                                         *)
(* Modelling conventions                                                   *)
(*  - A byte of the input stream is an atom: NEWLINE, JUNK (text that is   *)
(*    not JSON) or a whole JSON text, written as the document it spells.   *)
(*    r_json_parse (radare2's library, not part of this repository) is     *)
(*    modelled as accepting exactly the lines made of one JSON text and    *)
(*    building the RJson tree of it, with its 64-bit integers scaled to    *)
(*    INT_BITS bits.                                                       *)
(*  - C strings are TLA+ strings; a NULL char pointer is NULLSTR.          *)
(*  - An RJson pointer is NULL or a tree; a pointer kept after the tree    *)
(*    was released is a record with freed = TRUE.                          *)
(*  - Memory allocation is taken to succeed.                               *)
(*  - Undefined behaviour (a write past the allocation, a use of released  *)
(*    memory) either goes unnoticed or ends the process (pc = "crashed").  *)
(***************************************************************************)
EXTENDS Integers, Sequences, FiniteSets, TLC

VARIABLES
    pc,             \* position of the process: see PcValues
    buffer,         \* the ReadBuffer of direct_mode_loop
    server_state,   \* the fields of ServerState that change
    r_core,         \* "core" once init_r2 succeeded, NULLSTR after cleanup_r2
    file_opened,    \* static bool file_opened
    current_file,   \* static char current_file[1024]
    running,        \* static volatile sig_atomic_t running
    stdout_open,    \* the peer still reads the output stream
    out,            \* what the current loop iteration wrote to stdout
    lines,          \* history: the complete lines the last read made available
    req,            \* history: the message last handed to process_mcp_message
    calls,          \* history: the radare2 calls made for that message
    wrote,          \* history: what was written to stdout for that message
    before,         \* history: the server and file state that message found
    file_history,   \* history: how the openFile / closeFile calls so far went
    write_failed,   \* history: a response was written after the peer had gone
    input_ended,    \* history: read returned 0
    fr_pc,          \* framing harness: its position
    stream,         \* framing harness: the byte sequence under test
    rest,           \* framing harness: bytes not yet fed in chunks
    msgs,           \* framing harness: messages extracted when fed in chunks
    wbuffer,        \* framing harness: the buffer fed with the whole sequence
    wmsgs           \* framing harness: messages extracted from wbuffer

vars == <<pc, buffer, server_state, r_core, file_opened, current_file, running,
          stdout_open, out, lines, req, calls, wrote, before, file_history,
          write_failed, input_ended, fr_pc, stream, rest, msgs, wbuffer, wmsgs>>

progVars == <<pc, buffer, server_state, r_core, file_opened, current_file,
              running, stdout_open, out, lines, req, calls, wrote, before, file_history, write_failed, input_ended>>

frVars == <<fr_pc, stream, rest, msgs, wbuffer, wmsgs>>

-----------------------------------------------------------------------------
(* Sizes.  The source's BUFFER_SIZE (65536) and READ_CHUNK_SIZE (4096) are  *)
(* scaled down, keeping READ_CHUNK_SIZE <= BUFFER_SIZE; the 64-bit width of *)
(* RJson integers is scaled to INT_BITS.                                    *)

BUFFER_SIZE == 3

READ_CHUNK_SIZE == 3

INT_BITS == 7

\* the loop model stops reading once this many bytes would be held
MaxHeld == 4

\* the longest byte sequence of the framing harness: one byte more than a
\* fresh buffer holds after its single doubling
MaxStream == 2 * BUFFER_SIZE + 1

NULLSTR == "(null)"

NULL == [type |-> "NULL"]

NEWLINE == [type |-> "newline"]

JUNK == [type |-> "junk"]

RECURSIVE Pow2(_)
Pow2(n) == IF n = 0 THEN 1 ELSE 2 * Pow2(n - 1)

\* all sequences over S of length lo..hi
SeqsOf(S, lo, hi) == UNION {[1..n -> S] : n \in lo..hi}

-----------------------------------------------------------------------------
(* ReadBuffer.  data holds the size bytes in use, in storage order.         *)

read_buffer_new ==
    [data |-> <<>>, size |-> 0, capacity |-> BUFFER_SIZE]

\* the capacity after the (single) doubling of read_buffer_append
GrownCapacity(buf, len) ==
    IF buf.size + len > buf.capacity THEN buf.capacity * 2 ELSE buf.capacity

\* memcpy(buf->data + buf->size, data, len) writes past the allocation
AppendOverflows(buf, data) ==
    buf.size + Len(data) > GrownCapacity(buf, Len(data))

read_buffer_append(buf, data) ==
    [data     |-> buf.data \o data,
     size     |-> buf.size + Len(data),
     capacity |-> GrownCapacity(buf, Len(data))]

\* (variant) the search finds the last newline
Memchr_last(data, size) ==
    IF \E i \in 1..size : data[i] = NEWLINE
    THEN CHOOSE i \in 1..size : data[i] = NEWLINE /\ \A j \in (i + 1)..size : data[j] # NEWLINE
    ELSE 0

\* memchr(buf->data, '\n', buf->size): index of the first newline, 0 if none
Memchr(data, size) ==
    IF \E i \in 1..size : data[i] = NEWLINE
    THEN CHOOSE i \in 1..size : data[i] = NEWLINE /\ \A j \in 1..(i - 1) : data[j] # NEWLINE
    ELSE 0

HasMessage(buf) == Memchr(buf.data, buf.size) # 0

\* the message read_buffer_get_message returns (when HasMessage)
MessageOf(buf) == SubSeq(buf.data, 1, Memchr(buf.data, buf.size) - 1)

\* the buffer read_buffer_get_message leaves (when HasMessage)
read_buffer_get_message(buf) ==
    LET nl == Memchr(buf.data, buf.size)
        msg_len == nl - 1
        remaining == buf.size - (msg_len + 1)
    IN  [buf EXCEPT !.data = SubSeq(buf.data, nl + 1, nl + remaining),
                    !.size = remaining]


-----------------------------------------------------------------------------
(* JSON.  A document (the text as written) and an RJson tree share one      *)
(* shape; they differ in the integers: a document holds the literal n, the *)
(* tree holds num.u_value, the INT_BITS-bit pattern strtoll/strtoull left. *)

DStr(s) == [type |-> "string", str_value |-> s]

DInt(n) == [type |-> "integer", n |-> n]

DNull == [type |-> "null"]

DBool(b) == [type |-> "boolean", b |-> b]

\* a literal with a fraction or an exponent
DDouble == [type |-> "double"]

DObj(f) == [type |-> "object", children |-> f]

EmptyObj == [k \in {} |-> k]

\* an optional member of an object under construction
Opt(present, key, value) == IF present THEN key :> value ELSE EmptyObj

JsonTypes == {"string", "integer", "null", "boolean", "double", "object"}

IntMin == -Pow2(INT_BITS - 1)

UIntMax == Pow2(INT_BITS) - 1

\* strtoll / strtoull report ERANGE outside this range and the parse fails
RECURSIVE InRange(_)
InRange(doc) ==
    CASE doc.type = "integer" -> doc.n >= IntMin /\ doc.n <= UIntMax
      [] doc.type = "object"  -> \A k \in DOMAIN doc.children : InRange(doc.children[k])
      [] OTHER                -> TRUE

RECURSIVE ToRJson(_)
ToRJson(doc) ==
    CASE doc.type = "integer" ->
            [type |-> "integer", u_value |-> doc.n % Pow2(INT_BITS)]
      [] doc.type = "object" ->
            [type |-> "object",
             children |-> [k \in DOMAIN doc.children |-> ToRJson(doc.children[k])]]
      [] OTHER -> doc

\* r_json_parse((char *)msg): NULL unless the line is one JSON text
r_json_parse(msg) ==
    IF Len(msg) = 1 /\ msg[1].type \in JsonTypes /\ InRange(msg[1])
    THEN ToRJson(msg[1])
    ELSE NULL

\* r_json_get (radare2): the member, NULL for a NULL or non-object json
r_json_get(json, key) ==
    IF json = NULL \/ json.type # "object" THEN NULL
    ELSE IF key \in DOMAIN json.children THEN json.children[key]
    ELSE NULL

r_json_get_str(json, key) ==
    LET field == r_json_get(json, key)
    IN  IF field = NULL \/ field.type # "string" THEN NULLSTR ELSE field.str_value

\* (long long)u : the two's complement reading of an INT_BITS-bit pattern
ToSigned(u) == IF u >= Pow2(INT_BITS - 1) THEN u - Pow2(INT_BITS) ELSE u

\* the width of int, narrower than that of long long
IntBits == INT_BITS - 1

INT_MAX == Pow2(IntBits - 1) - 1

\* (int)u : the two's complement reading of the low IntBits bits
ToInt(u) ==
    LET low == u % Pow2(IntBits)
    IN  IF low >= Pow2(IntBits - 1) THEN low - Pow2(IntBits) ELSE low

DigitChar(d) == SubSeq("0123456789", d + 1, d + 1)

RECURSIVE UDecimal(_)
UDecimal(n) == IF n < 10 THEN DigitChar(n) ELSE UDecimal(n \div 10) \o DigitChar(n % 10)

\* snprintf(.., "%lld", n) and "%d"
Decimal(n) == IF n < 0 THEN "-" \o UDecimal(-n) ELSE UDecimal(n)

-----------------------------------------------------------------------------
(* Responses.  A JSON object written through PJ is a function from its     *)
(* keys; a key is present iff it is in the DOMAIN.                          *)

create_error_response(code, message, id, uri) ==
    ("jsonrpc" :> "2.0")
    @@ Opt(id # NULLSTR, "id", id)
    @@ ("error" :> (("code" :> code) @@ ("message" :> message)
                    @@ Opt(uri # NULLSTR, "data", ("uri" :> uri))))

\* result is raw JSON text, modelled as the value it spells
create_success_response(result, id) ==
    ("jsonrpc" :> "2.0")
    @@ Opt(id # NULLSTR, "id", id)
    @@ ("result" :> IF result = NULL THEN DNull ELSE result)

\* (variant) the tool error is written without its flag
create_tool_error_response_unflagged(error_message) ==
    ("content" :> << ("type" :> "text") @@ ("text" :> error_message) >>)

create_tool_error_response(error_message) ==
    ("content" :> << ("type" :> "text") @@ ("text" :> error_message) >>)
    @@ ("isError" :> TRUE)

create_tool_text_response(text) ==
    ("content" :> << ("type" :> "text") @@ ("text" :> text) >>)


-----------------------------------------------------------------------------
(* The state the handlers read and write, gathered in a record w ("world"): *)
(* server_state, r_core, file_opened, current_file, and the history calls. *)
(* A handler is the set of its possible outcomes [w, ret, crash]: the      *)
(* radare2 core and undefined behaviour are its nondeterminism.            *)

Ret(w, v) == [w |-> w, ret |-> v, crash |-> FALSE]

Crashed(w, v) == [w |-> w, ret |-> v, crash |-> TRUE]

\* a call into the radare2 core, recorded
Call(w, c) == [w EXCEPT !.calls = Append(@, c)]

\* a pointer into the request tree, as r_json_get returns it
Ptr(node) == IF node = NULL THEN NULL ELSE [type |-> "ptr", freed |-> FALSE, node |-> node]

\* the pointer after r_json_free of the tree it points into
Freed(p) == IF p = NULL THEN NULL ELSE [p EXCEPT !.freed = TRUE]

Dangling(p) == p # NULL /\ p.freed

\* static ServerState server_state = {...}: the constant fields
ServerInfo == [name |-> "Radare2 MCP Connector", version |-> "1.0.0"]

ServerCapabilities == [logging |-> TRUE, tools |-> TRUE]

Instructions == "Use this server to analyze binaries with radare2"

LATEST_PROTOCOL_VERSION == "2024-11-05"

InitServerState ==
    [initialized |-> FALSE, client_capabilities |-> NULL, client_info |-> NULL]

\* r2_cmd(cmd): the text the core prints for cmd (opaque)
R2Output(cmd) == "<" \o cmd \o ">"

\* (variant) the file that is open is not closed before the new one is tried
OpenWithCore_keeping_previous(w, filepath) ==
    LET w2 == Call(Call(Call(w, "e bin.relocs.apply=true"), "e bin.cache=true"),
                   "o " \o filepath)
        w3 == Call(w2, "r_core_file_open " \o filepath)
        Done(x) == [Call(x, "ob") EXCEPT !.file_opened = TRUE, !.current_file = filepath]
    IN  { Ret(Done(w2), TRUE),
          Ret(Done(Call(w3, "r_core_bin_load " \o filepath)), TRUE),
          Ret(w3, FALSE) }

\* (variant) a failed open is reported as TRUE
OpenWithCore_always_true(w, filepath) ==
    LET w1 == IF w.file_opened
              THEN [Call(w, "o-*") EXCEPT !.file_opened = FALSE, !.current_file = ""]
              ELSE w
        w2 == Call(Call(Call(w1, "e bin.relocs.apply=true"), "e bin.cache=true"),
                   "o " \o filepath)
        w3 == Call(w2, "r_core_file_open " \o filepath)
        Done(x) == [Call(x, "ob") EXCEPT !.file_opened = TRUE, !.current_file = filepath]
    IN  { Ret(Done(w2), TRUE),
          Ret(Done(Call(w3, "r_core_bin_load " \o filepath)), TRUE),
          Ret(w3, TRUE) }

\* the body of r2_open_file once a core exists
OpenWithCore(w, filepath) ==
    LET w1 == IF w.file_opened
              THEN [Call(w, "o-*") EXCEPT !.file_opened = FALSE, !.current_file = ""]
              ELSE w
        w2 == Call(Call(Call(w1, "e bin.relocs.apply=true"), "e bin.cache=true"),
                   "o " \o filepath)
        w3 == Call(w2, "r_core_file_open " \o filepath)
        Done(x) == [Call(x, "ob") EXCEPT !.file_opened = TRUE, !.current_file = filepath]
    IN  { Ret(Done(w2), TRUE),                                       \* "o" printed something
          Ret(Done(Call(w3, "r_core_bin_load " \o filepath)), TRUE), \* r_core_file_open gave a descriptor
          Ret(w3, FALSE) }                                           \* both failed

r2_open_file(w, filepath) ==
    IF w.r_core = NULLSTR
    THEN {Ret(w, FALSE)} \cup OpenWithCore([w EXCEPT !.r_core = "core"], filepath)
    ELSE OpenWithCore(w, filepath)

r2_cmd(w, cmd) ==
    IF w.r_core = NULLSTR \/ ~w.file_opened
    THEN Ret(w, "Error: No file is open")
    ELSE Ret(Call(w, cmd), R2Output(cmd))

r2_analyze(w, level) ==
    IF w.r_core = NULLSTR \/ ~w.file_opened THEN Ret(w, FALSE) ELSE Ret(Call(w, level), TRUE)

-----------------------------------------------------------------------------
(* Capability checks.                                                      *)

\* reads server_state.client_capabilities: undefined once the request that
\* held it was released
check_client_capability(w, capability) ==
    LET caps == w.server_state.client_capabilities
    IN  IF caps = NULL THEN {Ret(w, FALSE)}
        ELSE IF caps.freed THEN {Ret(w, TRUE), Ret(w, FALSE), Crashed(w, FALSE)}
        ELSE {Ret(w, r_json_get(caps.node, capability) # NULL)}

check_server_capability(capability) ==
    IF capability = "logging" THEN ServerCapabilities.logging
    ELSE IF capability = "tools" THEN ServerCapabilities.tools
    ELSE FALSE

\* ret is *error, NULLSTR when the method may proceed
assert_capability_for_method(w, method) ==
    IF method = "sampling/createMessage"
    THEN {[o EXCEPT !.ret = IF o.ret THEN NULLSTR ELSE "Client does not support sampling"]
            : o \in check_client_capability(w, "sampling")}
    ELSE IF method = "roots/list"
    THEN {[o EXCEPT !.ret = IF o.ret THEN NULLSTR ELSE "Client does not support listing roots"]
            : o \in check_client_capability(w, "roots")}
    ELSE {Ret(w, NULLSTR)}

HasPrefix(s, prefix) ==
    Len(s) >= Len(prefix) /\ SubSeq(s, 1, Len(prefix)) = prefix

assert_request_handler_capability(method) ==
    IF method = "sampling/createMessage"
    THEN IF ~check_server_capability("sampling") THEN "Server does not support sampling" ELSE NULLSTR
    ELSE IF method = "logging/setLevel"
    THEN IF ~check_server_capability("logging") THEN "Server does not support logging" ELSE NULLSTR
    ELSE IF HasPrefix(method, "prompts/")
    THEN IF ~check_server_capability("prompts") THEN "Server does not support prompts" ELSE NULLSTR
    ELSE IF HasPrefix(method, "tools/")
    THEN IF ~check_server_capability("tools") THEN "Server does not support tools" ELSE NULLSTR
    ELSE NULLSTR


-----------------------------------------------------------------------------
(* Method handlers.                                                        *)

get_capabilities == ("tools" :> EmptyObj)

\* r_json_free of a pointer that already dangles is undefined
handle_initialize(w, params) ==
    LET ss == w.server_state
        result == ("protocolVersion" :> LATEST_PROTOCOL_VERSION)
                  @@ ("serverInfo" :> ServerInfo)
                  @@ ("capabilities" :> get_capabilities)
                  @@ ("instructions" :> Instructions)
        w1 == [w EXCEPT !.server_state =
                  [initialized         |-> TRUE,
                   client_capabilities |-> Ptr(r_json_get(params, "capabilities")),
                   client_info         |-> Ptr(r_json_get(params, "clientInfo"))]]
    IN  {Ret(w1, result)}
        \cup IF Dangling(ss.client_capabilities) \/ Dangling(ss.client_info)
             THEN {Crashed(w, result)} ELSE {}

\* const char *tools[][3]: name, description, schema (by its required keys)
Tools ==
    << [name |-> "openFile",    description |-> "Open a file for analysis",
        required |-> <<"filePath">>],
       [name |-> "closeFile",   description |-> "Close the currently open file",
        required |-> <<>>],
       [name |-> "runCommand",  description |-> "Run a radare2 command and get the output",
        required |-> <<"command">>],
       [name |-> "analyze",     description |-> "Run analysis on the current file",
        required |-> <<>>],
       [name |-> "disassemble", description |-> "Disassemble instructions at a given address",
        required |-> <<"address">>] >>

PageSize == 10

IsDigit(c) == \E d \in 0..9 : c = DigitChar(d)

DigitValue(c) == CHOOSE d \in 0..9 : c = DigitChar(d)

\* the value of the digits of s from position i on, after acc
RECURSIVE AtoiFrom(_, _, _)
AtoiFrom(s, i, acc) ==
    IF i <= Len(s) /\ IsDigit(SubSeq(s, i, i))
    THEN AtoiFrom(s, i + 1, acc * 10 + DigitValue(SubSeq(s, i, i)))
    ELSE acc

\* atoi(s): an optional sign, then digits; 0 when there are none
Atoi(s) ==
    IF Len(s) > 0 /\ SubSeq(s, 1, 1) = "-" THEN -AtoiFrom(s, 2, 0)
    ELSE IF Len(s) > 0 /\ SubSeq(s, 1, 1) = "+" THEN AtoiFrom(s, 2, 0)
    ELSE AtoiFrom(s, 1, 0)

\* the JSON handle_list_tools prints for a page [start_index, end_index)
ToolsPage(start_index, end_index) ==
    LET count == IF end_index > start_index THEN end_index - start_index ELSE 0
    IN  ("tools" :> [j \in 1..count |-> Tools[start_index + j]])
        @@ Opt(end_index < Len(Tools), "nextCursor", Decimal(end_index))

\* (variant) nextCursor is written on the last page as well
handle_list_tools_always_next(params) ==
    LET cursor == r_json_get_str(params, "cursor")
        parsed == IF cursor # NULLSTR THEN Atoi(cursor) ELSE 0
        start_index == IF parsed < 0 THEN 0 ELSE parsed
        total_tools == Len(Tools)
        end_index == IF start_index + PageSize > total_tools
                     THEN total_tools ELSE start_index + PageSize
    IN  {[ret |-> ToolsPage(start_index, end_index)
                  @@ ("nextCursor" :> Decimal(end_index)),
          crash |-> FALSE]}

\* the set of its outcomes [ret, crash]: int end_index = start_index +
\* page_size overflows for a cursor near INT_MAX, which is undefined; the
\* sum then wraps, or is taken as the number it would be, or traps
handle_list_tools(params) ==
    LET cursor == r_json_get_str(params, "cursor")
        parsed == IF cursor # NULLSTR THEN Atoi(cursor) ELSE 0
        start_index == IF parsed < 0 THEN 0 ELSE parsed
        total_tools == Len(Tools)
        Clip(sum) == IF sum > total_tools THEN total_tools ELSE sum
        sum == start_index + PageSize
    IN  IF sum <= INT_MAX
        THEN {[ret |-> ToolsPage(start_index, Clip(sum)), crash |-> FALSE]}
        ELSE {[ret |-> ToolsPage(start_index, Clip(ToInt(sum))), crash |-> FALSE],
              [ret |-> ToolsPage(start_index, Clip(sum)), crash |-> FALSE],
              [ret |-> EmptyObj, crash |-> TRUE]}

NoFileMessage == "No file is currently open. Please open a file first."

\* (variant) the close leaves file_opened and current_file as they were
CloseFileTool_keeping_state(w) ==
    IF ~w.file_opened THEN Ret(w, create_tool_text_response("No file was open."))
    ELSE Ret(IF w.r_core # NULLSTR THEN Call(w, "o-*") ELSE w,
             create_tool_text_response("File closed successfully."))

\* the closeFile branch of handle_call_tool
CloseFileTool(w) ==
    IF ~w.file_opened THEN Ret(w, create_tool_text_response("No file was open."))
    ELSE Ret(IF w.r_core # NULLSTR
             THEN [Call(w, "o-*") EXCEPT !.file_opened = FALSE, !.current_file = ""]
             ELSE w,
             create_tool_text_response("File closed successfully."))

handle_call_tool(w, params) ==
    LET tool_name == r_json_get_str(params, "name")
        tool_args == r_json_get(params, "arguments")
        filepath  == r_json_get_str(tool_args, "filePath")
        command   == r_json_get_str(tool_args, "command")
        level0    == r_json_get_str(tool_args, "level")
        level     == IF level0 = NULLSTR THEN "aaa" ELSE level0
        address   == r_json_get_str(tool_args, "address")
        num_instr_json == r_json_get(tool_args, "numInstructions")
        num_instructions ==
            IF num_instr_json # NULL /\ num_instr_json.type = "integer"
            THEN ToInt(num_instr_json.u_value) ELSE 10
        Missing(name) ==
            create_error_response(-32602, "Missing required parameter: " \o name,
                                  NULLSTR, NULLSTR)
    IN  IF tool_name = NULLSTR THEN {Ret(w, Missing("name"))}
        ELSE IF tool_name = "openFile" THEN
            IF filepath = NULLSTR THEN {Ret(w, Missing("filePath"))}
            ELSE {Ret(o.w, create_tool_text_response(
                           IF o.ret THEN "File opened successfully."
                                    ELSE "Failed to open file."))
                    : o \in r2_open_file(w, filepath)}
        ELSE IF tool_name = "closeFile" THEN {CloseFileTool(w)}
        ELSE IF ~w.file_opened /\ tool_name \in {"runCommand", "analyze", "disassemble"}
        THEN {Ret(w, create_tool_error_response(NoFileMessage))}
        ELSE IF tool_name = "runCommand" THEN
            IF command = NULLSTR THEN {Ret(w, Missing("command"))}
            ELSE LET r == r2_cmd(w, command)
                 IN  {Ret(r.w, create_tool_text_response(r.ret))}
        ELSE IF tool_name = "analyze" THEN
            LET a == r2_analyze(w, level)
                r == r2_cmd(a.w, "afl")
            IN  {Ret(r.w, create_tool_text_response(
                     "Analysis completed with level " \o level \o ".\n\n" \o r.ret))}
        ELSE IF tool_name = "disassemble" THEN
            IF address = NULLSTR THEN {Ret(w, Missing("address"))}
            ELSE LET r == r2_cmd(w, "pd " \o Decimal(num_instructions) \o " @ " \o address)
                 IN  {Ret(r.w, create_tool_text_response(r.ret))}
        ELSE {Ret(w, create_error_response(-32602, "Unknown tool: " \o tool_name,
                                           NULLSTR, NULLSTR))}

\* ret is the response line
handle_mcp_request(w, method, params, id) ==
    LET NotImplemented(what) ==
            create_error_response(-32601, "Method not implemented: " \o what \o " are not supported",
                                  id, NULLSTR)
        Routed ==
            IF method = "initialize" THEN
                {[o EXCEPT !.ret = create_success_response(o.ret, id)]
                    : o \in handle_initialize(w, params)}
            ELSE IF method = "ping" THEN {Ret(w, create_success_response(EmptyObj, id))}
            ELSE IF method = "resources/templates/list" THEN {Ret(w, NotImplemented("templates"))}
            ELSE IF method = "resources/list" THEN {Ret(w, NotImplemented("resources"))}
            ELSE IF method \in {"resources/read", "resource/read"}
                THEN {Ret(w, NotImplemented("resources"))}
            ELSE IF method \in {"resources/subscribe", "resource/subscribe"}
                THEN {Ret(w, NotImplemented("subscriptions"))}
            ELSE IF method \in {"tools/list", "tool/list"}
                THEN {IF o.crash THEN Crashed(w, EmptyObj)
                      ELSE Ret(w, create_success_response(o.ret, id))
                        : o \in handle_list_tools(params)}
            ELSE IF method \in {"tools/call", "tool/call"}
                THEN {[o EXCEPT !.ret = create_success_response(o.ret, id)]
                        : o \in handle_call_tool(w, params)}
            ELSE {Ret(w, create_error_response(-32601, "Unknown method", id, NULLSTR))}
    IN  UNION {
            IF c.crash THEN {Crashed(c.w, EmptyObj)}
            ELSE IF c.ret # NULLSTR
                THEN {Ret(c.w, create_error_response(-32601, c.ret, id, NULLSTR))}
            ELSE IF assert_request_handler_capability(method) # NULLSTR
                THEN {Ret(c.w, create_error_response(
                              -32601, assert_request_handler_capability(method), id, NULLSTR))}
            ELSE Routed
          : c \in assert_capability_for_method(w, method) }


-----------------------------------------------------------------------------
(* process_mcp_message.  ret is the sequence of response lines it writes   *)
(* (none or one); r_json_free(request) at its end leaves every pointer     *)
(* that handle_initialize took from the request dangling.                  *)

\* the id string handed to handle_mcp_request for a present id member
IdString(id_json) ==
    IF id_json.type = "string" THEN id_json.str_value
    ELSE IF id_json.type = "integer" THEN Decimal(ToSigned(id_json.u_value))
    ELSE NULLSTR

ReleaseRequest(w) ==
    [w EXCEPT !.server_state.client_capabilities = Freed(@),
              !.server_state.client_info = Freed(@)]

\* (variant) a message without an id is dispatched as well
process_mcp_message_dispatching_all(w, msg) ==
    LET request == r_json_parse(msg)
        method  == r_json_get_str(request, "method")
        params  == r_json_get(request, "params")
        id_json == r_json_get(request, "id")
        id      == IF id_json = NULL THEN NULLSTR ELSE IdString(id_json)
    IN  IF request = NULL THEN {Ret(w, <<>>)}
        ELSE IF method = NULLSTR THEN {Ret(ReleaseRequest(w), <<>>)}
        ELSE {IF o.crash THEN Crashed(o.w, <<>>) ELSE Ret(ReleaseRequest(o.w), <<o.ret>>)
                : o \in handle_mcp_request(w, method, params, id)}

\* (variant) a line that is no JSON is answered with a parse error
process_mcp_message_answering_invalid(w, msg) ==
    LET request == r_json_parse(msg)
        method  == r_json_get_str(request, "method")
        params  == r_json_get(request, "params")
        id_json == r_json_get(request, "id")
    IN  IF request = NULL
        THEN {Ret(w, <<create_error_response(-32700, "Parse error", NULLSTR, NULLSTR)>>)}
        ELSE IF method = NULLSTR THEN {Ret(ReleaseRequest(w), <<>>)}
        ELSE IF id_json # NULL
        THEN {IF o.crash THEN Crashed(o.w, <<>>) ELSE Ret(ReleaseRequest(o.w), <<o.ret>>)
                : o \in handle_mcp_request(w, method, params, IdString(id_json))}
        ELSE {Ret(ReleaseRequest(w), <<>>)}

process_mcp_message(w, msg) ==
    LET request == r_json_parse(msg)
        method  == r_json_get_str(request, "method")
        params  == r_json_get(request, "params")
        id_json == r_json_get(request, "id")
    IN  IF request = NULL THEN {Ret(w, <<>>)}
        ELSE IF method = NULLSTR THEN {Ret(ReleaseRequest(w), <<>>)}
        ELSE IF id_json # NULL
        THEN {IF o.crash THEN Crashed(o.w, <<>>) ELSE Ret(ReleaseRequest(o.w), <<o.ret>>)
                : o \in handle_mcp_request(w, method, params, IdString(id_json))}
        ELSE {Ret(ReleaseRequest(w), <<>>)}

-----------------------------------------------------------------------------
(* The input the model feeds.                                              *)

Request(id, method, params) ==
    DObj(("jsonrpc" :> DStr("2.0"))
         @@ Opt(id # NULL, "id", id)
         @@ Opt(method # NULL, "method", method)
         @@ Opt(params # NULL, "params", params))

ToolCall(name, arguments) ==
    DObj(Opt(name # NULL, "name", name) @@ Opt(arguments # NULL, "arguments", arguments))

Args(key, value) == DObj(key :> value)

NoArgs == DObj(EmptyObj)

\* the first unsigned value whose (long long) reading is negative
BigInt == Pow2(INT_BITS - 1)

IdsAll ==
    {NULL, DStr("abc"), DStr(""), DInt(42), DInt(0), DInt(-7), DInt(BigInt),
     DInt(UIntMax), DNull, DBool(TRUE), DDouble, NoArgs}

IdsFew == {NULL, DInt(42)}

IdsSome == {NULL, DInt(42), DStr("abc"), DNull}

PlainMethods ==
    {"resources/templates/list", "resources/list", "resources/read", "resource/read",
     "resources/subscribe", "resource/subscribe", "tools/list", "tool/list",
     "sampling/createMessage", "roots/list", "logging/setLevel", "prompts/list",
     "notifications/initialized", "bogus"}

InitParams ==
    {NULL,
     DObj("capabilities" :> NoArgs),
     DObj(("capabilities" :> DObj(("sampling" :> NoArgs) @@ ("roots" :> NoArgs)))
          @@ ("clientInfo" :> DObj("name" :> DStr("client"))))}

Paths == {"/bin/ls", "/bin/cat"}

ToolParams ==
    {NULL, NoArgs, ToolCall(DInt(1), NoArgs),
     ToolCall(DStr("openFile"), NULL), ToolCall(DStr("openFile"), NoArgs),
     ToolCall(DStr("openFile"), Args("filePath", DInt(1))),
     ToolCall(DStr("closeFile"), NoArgs),
     ToolCall(DStr("runCommand"), Args("command", DStr("pdf"))),
     ToolCall(DStr("runCommand"), NoArgs),
     ToolCall(DStr("analyze"), NULL),
     ToolCall(DStr("analyze"), Args("level", DStr("aa"))),
     ToolCall(DStr("disassemble"), Args("address", DStr("main"))),
     ToolCall(DStr("disassemble"),
              DObj(("address" :> DStr("main")) @@ ("numInstructions" :> DInt(2)))),
     ToolCall(DStr("disassemble"), NoArgs),
     ToolCall(DStr("bogus"), NoArgs)}
    \cup {ToolCall(DStr("openFile"), Args("filePath", DStr(p))) : p \in Paths}

\* cursors atoi can read: in, at and past the catalog, negative, near
\* INT_MAX, and without digits
Cursors == {"0", "3", "5", "7", "-1", Decimal(INT_MAX - 2), "x", ""}

\* the JSON texts that are requests (a string method)
RequestTexts ==
    {Request(i, DStr("ping"), NULL) : i \in IdsAll}
    \cup {Request(i, DStr(m), NULL) : i \in IdsFew, m \in PlainMethods}
    \cup {Request(DInt(BigInt), DStr("bogus"), NULL)}
    \cup {Request(i, DStr("initialize"), p) : i \in IdsSome, p \in InitParams}
    \cup {Request(i, DStr("tools/call"), p) : i \in IdsSome, p \in ToolParams}
    \cup {Request(DInt(42), DStr("tool/call"), p)
            : p \in {ToolCall(DStr("closeFile"), NoArgs), ToolCall(DStr("bogus"), NoArgs)}}
    \cup {Request(DInt(42), DStr("tools/list"), Args("cursor", DStr(c))) : c \in Cursors}

\* JSON texts that are no request, and one whose integer does not parse
OtherTexts ==
    {Request(DInt(42), NULL, NULL), Request(NULL, NULL, NULL),
     Request(DInt(42), DInt(1), NULL), DStr("ping"), DInt(42),
     Request(DInt(UIntMax + 1), DStr("ping"), NULL)}

Texts == RequestTexts \cup OtherTexts

\* the two requests the loop model also delivers split and batched
OpenText ==
    Request(DInt(42), DStr("tools/call"),
            ToolCall(DStr("openFile"), Args("filePath", DStr("/bin/ls"))))

RunText ==
    Request(DStr("abc"), DStr("tools/call"),
            ToolCall(DStr("runCommand"), Args("command", DStr("pdf"))))

LoopBytes == {NEWLINE, OpenText, RunText}

\* what one read(STDIN_FILENO, chunk, READ_CHUNK_SIZE) may deliver
Chunks ==
    SeqsOf(LoopBytes, 1, READ_CHUNK_SIZE)
    \cup {<<t, NEWLINE>> : t \in Texts \cup {JUNK}}


-----------------------------------------------------------------------------
(* main and direct_mode_loop.                                              *)
(*   pc = "top"     at while (running)                                     *)
(*   pc = "select"  in select()                                            *)
(*   pc = "drain"   at while ((msg = read_buffer_get_message(buffer)))     *)
(*   pc = "done"    after the loop: buffer freed, cleanup_r2 done          *)
(*   pc = "crashed" the process died of undefined behaviour               *)
(*   pc = "off"     the program is not running (framing harness)           *)

PcValues == {"top", "select", "drain", "done", "crashed", "killed", "off"}

World ==
    [server_state |-> server_state, r_core |-> r_core, file_opened |-> file_opened,
     current_file |-> current_file, calls |-> <<>>]

\* the complete lines of a byte sequence, in order (history only)
RECURSIVE CompleteLines(_)
CompleteLines(bytes) ==
    IF \A i \in 1..Len(bytes) : bytes[i] # NEWLINE THEN <<>>
    ELSE LET n == CHOOSE i \in 1..Len(bytes) :
                     bytes[i] = NEWLINE /\ \A j \in 1..(i - 1) : bytes[j] # NEWLINE
         IN  <<SubSeq(bytes, 1, n - 1)>> \o CompleteLines(SubSeq(bytes, n + 1, Len(bytes)))

\* a response line as written: write(response), write("\n")
Written(responses) ==
    IF responses = <<>> THEN <<>>
    ELSE <<[type |-> "text", json |-> responses[1]], NEWLINE>>

\* file_history after process_mcp_message(msg) ended with outcome o:
\*   "none"    no openFile or closeFile call was made yet
\*   "opened"  the last of them was an openFile that opened its file
\*   "failed"  the last was an openFile that failed, none having succeeded
\*             since the last closeFile
\*   "failed_after_open"  the last was an openFile that failed, one having
\*             succeeded since the last closeFile
\*   "closed"  the last was a closeFile
FileHistoryAfter(h, msg, o) ==
    LET request == r_json_parse(msg)
        method  == r_json_get_str(request, "method")
        params  == r_json_get(request, "params")
        tool    == r_json_get_str(params, "name")
        path    == r_json_get_str(r_json_get(params, "arguments"), "filePath")
    IN  IF o.crash \/ r_json_get(request, "id") = NULL
           \/ method \notin {"tools/call", "tool/call"} THEN h
        ELSE IF tool = "closeFile" THEN "closed"
        ELSE IF tool = "openFile" /\ path # NULLSTR THEN
            IF o.w.file_opened THEN "opened"
            ELSE IF h \in {"opened", "failed_after_open"} THEN "failed_after_open"
            ELSE "failed"
        ELSE h

\* what a message finds when process_mcp_message starts on it
StateNow ==
    [server_state |-> server_state, file_opened |-> file_opened,
     current_file |-> current_file]

\* the value of before while no message has been processed
NoBefore ==
    [server_state |-> InitServerState, file_opened |-> FALSE, current_file |-> ""]

\* main up to the call of direct_mode_loop: init_r2 succeeded, stdin is no tty
Init ==
    /\ pc = "top"
    /\ buffer = read_buffer_new
    /\ server_state = InitServerState
    /\ r_core = "core"
    /\ file_opened = FALSE
    /\ current_file = ""
    /\ running = 1
    /\ stdout_open = TRUE
    /\ out = <<>>
    /\ lines = <<>>
    /\ req = <<>>
    /\ calls = <<>>
    /\ wrote = <<>>
    /\ before = NoBefore
    /\ file_history = "none"
    /\ write_failed = FALSE
    /\ input_ended = FALSE
    /\ fr_pc = "off"
    /\ stream = <<>>
    /\ rest = <<>>
    /\ msgs = <<>>
    /\ wbuffer = read_buffer_new
    /\ wmsgs = <<>>

\* break / loop exit: read_buffer_free, then cleanup_r2 in main
EndLoop ==
    /\ pc' = "done"
    /\ r_core' = NULLSTR
    /\ file_opened' = FALSE
    /\ current_file' = ""
    /\ UNCHANGED <<buffer, server_state, running, stdout_open, out, lines, req, calls, wrote, before, file_history, write_failed>>

LeaveLoop == EndLoop /\ UNCHANGED input_ended

Continue ==
    /\ pc' = "top"
    /\ UNCHANGED <<buffer, server_state, r_core, file_opened, current_file, running,
                   stdout_open, out, lines, req, calls, wrote, before, file_history, write_failed, input_ended>>

\* while (running)
LoopTop ==
    /\ pc = "top"
    /\ running = 1
    /\ pc' = "select"
    /\ UNCHANGED <<buffer, server_state, r_core, file_opened, current_file, running,
                   stdout_open, out, lines, req, calls, wrote, before, file_history, write_failed, input_ended>>
    /\ UNCHANGED frVars

LoopExit ==
    /\ pc = "top"
    /\ running = 0
    /\ LeaveLoop
    /\ UNCHANGED frVars

\* select returned 0: the zero-length write probes stdout
SelectTimeout ==
    /\ pc = "select"
    /\ \E failed \in (IF stdout_open THEN {FALSE} ELSE BOOLEAN) :
          IF failed THEN LeaveLoop ELSE Continue
    /\ UNCHANGED frVars

\* select returned -1: EINTR continues, anything else breaks
SelectError ==
    /\ pc = "select"
    /\ \E eintr \in BOOLEAN : IF eintr THEN Continue ELSE LeaveLoop
    /\ UNCHANGED frVars

\* read returned bytes_read > 0
ReadChunk(chunk) ==
    /\ pc = "select"
    /\ Len(chunk) \in 1..READ_CHUNK_SIZE
    /\ buffer.size + Len(chunk) <= MaxHeld
    /\ buffer' = read_buffer_append(buffer, chunk)
    /\ pc' \in (IF AppendOverflows(buffer, chunk)
                THEN {"drain", "crashed"} ELSE {"drain"})
    /\ lines' = CompleteLines(buffer.data \o chunk)
    /\ UNCHANGED <<server_state, r_core, file_opened, current_file, running,
                   stdout_open, out, req, calls, wrote, before, file_history, write_failed, input_ended>>
    /\ UNCHANGED frVars

\* (variant) at end of input the bytes still held are decoded as a last message
ReadEOF_decoding_rest ==
    /\ pc = "select"
    /\ pc' = "done"
    /\ input_ended' = TRUE
    /\ req' = <<buffer.data>>
    /\ before' = StateNow
    /\ \E o \in process_mcp_message(World, buffer.data) :
          /\ server_state' = o.w.server_state
          /\ calls' = o.w.calls
          /\ wrote' = IF stdout_open THEN Written(o.ret) ELSE <<>>
          /\ out' = IF stdout_open THEN out \o Written(o.ret) ELSE out
          /\ file_history' = FileHistoryAfter(file_history, buffer.data, o)
    /\ r_core' = NULLSTR
    /\ file_opened' = FALSE
    /\ current_file' = ""
    /\ UNCHANGED <<buffer, running, stdout_open, lines, write_failed>>
    /\ UNCHANGED frVars

\* read returned 0
ReadEOF ==
    /\ pc = "select"
    /\ EndLoop
    /\ input_ended' = TRUE
    /\ UNCHANGED frVars

\* read returned -1: EAGAIN, EWOULDBLOCK and EINTR continue
ReadError ==
    /\ pc = "select"
    /\ \E again \in BOOLEAN : IF again THEN Continue ELSE LeaveLoop
    /\ UNCHANGED frVars

\* one turn of the inner while: a message is taken and processed
ProcessMessage ==
    /\ pc = "drain"
    /\ HasMessage(buffer)
    /\ buffer' = read_buffer_get_message(buffer)
    /\ req' = <<MessageOf(buffer)>>
    /\ before' = StateNow
    /\ \E o \in process_mcp_message(World, MessageOf(buffer)) :
          /\ server_state' = o.w.server_state
          /\ r_core' = o.w.r_core
          /\ file_opened' = o.w.file_opened
          /\ current_file' = o.w.current_file
          /\ calls' = o.w.calls
          /\ pc' = IF o.crash THEN "crashed" ELSE "drain"
          /\ wrote' = IF stdout_open THEN Written(o.ret) ELSE <<>>
          /\ out' = IF stdout_open THEN out \o Written(o.ret) ELSE out
          /\ file_history' = FileHistoryAfter(file_history, MessageOf(buffer), o)
          /\ write_failed' = (write_failed \/ (o.ret # <<>> /\ ~stdout_open))
    /\ UNCHANGED <<running, stdout_open, lines, input_ended>>
    /\ UNCHANGED frVars

\* read_buffer_get_message returned NULL
DrainEnd ==
    /\ pc = "drain"
    /\ ~HasMessage(buffer)
    /\ pc' = "top"
    /\ out' = <<>>
    /\ lines' = <<>>
    /\ req' = <<>>
    /\ calls' = <<>>
    /\ wrote' = <<>>
    /\ before' = NoBefore
    /\ UNCHANGED <<buffer, server_state, r_core, file_opened, current_file, running,
                   stdout_open, file_history, write_failed, input_ended>>
    /\ UNCHANGED frVars

\* signal_handler, on SIGINT, SIGTERM or SIGHUP
Signal ==
    /\ pc \in {"top", "select", "drain"}
    /\ running = 1
    /\ running' = 0
    /\ UNCHANGED <<pc, buffer, server_state, r_core, file_opened, current_file,
                   stdout_open, out, lines, req, calls, wrote, before, file_history, write_failed, input_ended>>
    /\ UNCHANGED frVars

\* the peer closes its end of the output stream
PeerCloses ==
    /\ pc \in {"top", "select", "drain"}
    /\ stdout_open
    /\ stdout_open' = FALSE
    /\ UNCHANGED <<pc, buffer, server_state, r_core, file_opened, current_file,
                   running, out, lines, req, calls, wrote, before, file_history, write_failed, input_ended>>
    /\ UNCHANGED frVars

Next ==
    \/ LoopTop
    \/ LoopExit
    \/ SelectTimeout
    \/ SelectError
    \/ \E chunk \in Chunks : ReadChunk(chunk)
    \/ ReadEOF
    \/ ReadError
    \/ ProcessMessage
    \/ DrainEnd
    \/ Signal
    \/ PeerCloses

Spec == Init /\ [][Next]_vars


-----------------------------------------------------------------------------
(* Cancellation.  signal_handler ends with signal(signum, SIG_DFL): once a *)
(* signal was handled (running = 0) the next signal of that number ends    *)
(* the process where it stands, between the two writes of a response       *)
(* included.  Spec leaves that second signal out; SpecCancel has it, over  *)
(* fewer inputs.                                                           *)
(*   pc = "killed"  the process was ended by a signal                      *)

CancelChunks == SeqsOf({NEWLINE, RunText}, 1, 2)

\* a second signal of the same number, outside process_mcp_message
Killed ==
    /\ pc \in {"top", "select", "drain"}
    /\ running = 0
    /\ pc' = "killed"
    /\ UNCHANGED <<buffer, server_state, r_core, file_opened, current_file, running,
                   stdout_open, out, lines, req, calls, wrote, before, file_history, write_failed, input_ended>>
    /\ UNCHANGED frVars

\* a second signal of the same number inside process_mcp_message: after the
\* handler returned, or after write(response) and before write("\n")
KilledInMessage ==
    /\ pc = "drain"
    /\ running = 0
    /\ HasMessage(buffer)
    /\ buffer' = read_buffer_get_message(buffer)
    /\ req' = <<MessageOf(buffer)>>
    /\ before' = StateNow
    /\ pc' = "killed"
    /\ \E o \in process_mcp_message(World, MessageOf(buffer)), payload_written \in BOOLEAN :
          LET written == IF payload_written /\ stdout_open /\ o.ret # <<>>
                         THEN <<[type |-> "text", json |-> o.ret[1]]>> ELSE <<>>
          IN  /\ server_state' = o.w.server_state
              /\ r_core' = o.w.r_core
              /\ file_opened' = o.w.file_opened
              /\ current_file' = o.w.current_file
              /\ calls' = o.w.calls
              /\ wrote' = written
              /\ out' = out \o written
              /\ file_history' = FileHistoryAfter(file_history, MessageOf(buffer), o)
              /\ write_failed' = (write_failed \/ (payload_written /\ o.ret # <<>> /\ ~stdout_open))
    /\ UNCHANGED <<running, stdout_open, lines, input_ended>>
    /\ UNCHANGED frVars

\* the steps the process takes by itself
ProgramStep ==
    \/ LoopTop
    \/ LoopExit
    \/ SelectTimeout
    \/ SelectError
    \/ ReadError
    \/ ProcessMessage
    \/ DrainEnd

NextCancel ==
    \/ ProgramStep
    \/ \E chunk \in CancelChunks : ReadChunk(chunk)
    \/ ReadEOF
    \/ Signal
    \/ PeerCloses
    \/ Killed
    \/ KilledInMessage

\* the process keeps running: select returns after its timeout at the latest
SpecCancel == Init /\ [][NextCancel]_vars /\ WF_vars(ProgramStep)


-----------------------------------------------------------------------------
(* Framing harness: read_buffer_append and read_buffer_get_message alone.  *)
(* One byte sequence is fed to buffer in chunks of any sizes, extracting   *)
(* after each append until no message is left, and then to wbuffer in one  *)
(* append.                                                                 *)
(*   fr_pc = "feed"    next chunk         fr_pc = "drain"   extracting     *)
(*   fr_pc = "whole"   the single append  fr_pc = "wdrain"  extracting     *)
(*   fr_pc = "end"     both done          fr_pc = "crashed" an append      *)
(*                                        wrote past its allocation        *)

FrBytes == {NEWLINE, JUNK, RunText}

FrInit ==
    /\ pc = "off"
    /\ buffer = read_buffer_new
    /\ server_state = InitServerState
    /\ r_core = "core"
    /\ file_opened = FALSE
    /\ current_file = ""
    /\ running = 1
    /\ stdout_open = TRUE
    /\ out = <<>>
    /\ lines = <<>>
    /\ req = <<>>
    /\ calls = <<>>
    /\ wrote = <<>>
    /\ before = NoBefore
    /\ file_history = "none"
    /\ write_failed = FALSE
    /\ input_ended = FALSE
    /\ fr_pc = "feed"
    /\ stream \in SeqsOf(FrBytes, 0, MaxStream)
    /\ rest = stream
    /\ msgs = <<>>
    /\ wbuffer = read_buffer_new
    /\ wmsgs = <<>>

FrUnchangedProgram ==
    UNCHANGED <<pc, server_state, r_core, file_opened, current_file, running,
                stdout_open, out, lines, req, calls, wrote, before, file_history, write_failed, input_ended>>

\* read_buffer_append(buffer, the next n bytes)
FrFeed(n) ==
    /\ fr_pc = "feed"
    /\ n \in 1..Len(rest)
    /\ buffer' = read_buffer_append(buffer, SubSeq(rest, 1, n))
    /\ rest' = SubSeq(rest, n + 1, Len(rest))
    /\ fr_pc' \in (IF AppendOverflows(buffer, SubSeq(rest, 1, n))
                   THEN {"drain", "crashed"} ELSE {"drain"})
    /\ UNCHANGED <<stream, msgs, wbuffer, wmsgs>>
    /\ FrUnchangedProgram

\* read_buffer_get_message(buffer), until it returns NULL
FrExtract ==
    /\ fr_pc = "drain"
    /\ IF HasMessage(buffer)
       THEN /\ msgs' = Append(msgs, MessageOf(buffer))
            /\ buffer' = read_buffer_get_message(buffer)
            /\ fr_pc' = "drain"
       ELSE /\ fr_pc' = IF rest = <<>> THEN "whole" ELSE "feed"
            /\ UNCHANGED <<msgs, buffer>>
    /\ UNCHANGED <<stream, rest, wbuffer, wmsgs>>
    /\ FrUnchangedProgram

\* the empty sequence has no chunk to feed
FrFeedNothing ==
    /\ fr_pc = "feed"
    /\ rest = <<>>
    /\ fr_pc' = "whole"
    /\ UNCHANGED <<buffer, stream, rest, msgs, wbuffer, wmsgs>>
    /\ FrUnchangedProgram

\* read_buffer_append(wbuffer, the whole sequence)
FrWhole ==
    /\ fr_pc = "whole"
    /\ wbuffer' = read_buffer_append(wbuffer, stream)
    /\ fr_pc' \in (IF AppendOverflows(wbuffer, stream)
                   THEN {"wdrain", "crashed"} ELSE {"wdrain"})
    /\ UNCHANGED <<buffer, stream, rest, msgs, wmsgs>>
    /\ FrUnchangedProgram

FrExtractWhole ==
    /\ fr_pc = "wdrain"
    /\ IF HasMessage(wbuffer)
       THEN /\ wmsgs' = Append(wmsgs, MessageOf(wbuffer))
            /\ wbuffer' = read_buffer_get_message(wbuffer)
            /\ fr_pc' = "wdrain"
       ELSE /\ fr_pc' = "end"
            /\ UNCHANGED <<wmsgs, wbuffer>>
    /\ UNCHANGED <<buffer, stream, rest, msgs>>
    /\ FrUnchangedProgram

FrNext ==
    \/ \E n \in 1..MaxStream : FrFeed(n)
    \/ FrExtract
    \/ FrFeedNothing
    \/ FrWhole
    \/ FrExtractWhole

SpecFraming == FrInit /\ [][FrNext]_vars

-----------------------------------------------------------------------------
(* Claims.  The history variables describe the message processed last in   *)
(* the current inner while: req holds it, before the state it found, wrote *)
(* and calls what it caused.                                               *)

Handled == req # <<>>

\* the line is one JSON text that the parser accepts, with a string method
IsRequest(msg) ==
    /\ Len(msg) = 1
    /\ msg[1].type = "object"
    /\ InRange(msg[1])
    /\ "method" \in DOMAIN msg[1].children
    /\ msg[1].children.method.type = "string"

HasIdMember(msg) == "id" \in DOMAIN msg[1].children

IdMember(msg) == msg[1].children.id

\* the line is a request whose id is a string or an integer
IsRequestWithId(msg) ==
    IsRequest(msg) /\ HasIdMember(msg) /\ IdMember(msg).type \in {"string", "integer"}

\* the id a response to msg has to carry: the string, or the integer in decimal
EchoOf(msg) ==
    IF IdMember(msg).type = "string" THEN IdMember(msg).str_value
    ELSE Decimal(IdMember(msg).n)

ReqMethod == r_json_get_str(r_json_parse(req[1]), "method")

ReqParams == r_json_get(r_json_parse(req[1]), "params")

ReqTool == r_json_get_str(ReqParams, "name")

ReqArgument(key) == r_json_get_str(r_json_get(ReqParams, "arguments"), key)

\* the message processed last is a tools/call request with an id
IsToolCall == Handled /\ IsRequestWithId(req[1]) /\ ReqMethod = "tools/call"

\* exactly one line was written for the message processed last
OneLine == Len(wrote) = 2 /\ wrote[1].type = "text" /\ wrote[2] = NEWLINE

Response == wrote[1].json

IsSuccessEnvelope(r) == "result" \in DOMAIN r /\ "error" \notin DOMAIN r

ResultText(r) == r.result.content[1].text

HasIsError(result) == "isError" \in DOMAIN result /\ result.isError = TRUE

\* the core opened the file: r2_open_file ends with "ob" only then
BackendOpened == calls # <<>> /\ calls[Len(calls)] = "ob"

StateUntouched ==
    /\ server_state = before.server_state
    /\ file_opened = before.file_opened
    /\ current_file = before.current_file
    /\ calls = <<>>

GatedTools == {"runCommand", "analyze", "disassemble"}

\* the result is the tool error "no file is open"
IsNoFileError(r) ==
    /\ IsSuccessEnvelope(r)
    /\ HasIsError(r.result)
    /\ Len(r.result.content) = 1
    /\ r.result.content[1].type = "text"
    /\ ResultText(r) = "No file is currently open. Please open a file first."

\* C1 (framing is independent of the chunk boundaries): once a byte
\* sequence has been fed in chunks and, separately, in one append, both
\* runs have ended normally with the same messages in the same order and
\* the same unterminated remainder in the buffer.
C1_ChunkBoundaryIndependence ==
    fr_pc \in {"end", "crashed"} =>
        /\ fr_pc = "end"
        /\ msgs = wmsgs
        /\ buffer.data = wbuffer.data

\* the same, for the runs in which no append wrote past its allocation
FramingAgreesUnlessOverflow ==
    fr_pc = "end" => msgs = wmsgs /\ buffer.data = wbuffer.data

\* C2 (exactly one response line per request with an id): while the output
\* stream is open, a line that is a request with a string or integer id has
\* been answered by exactly one line, and the server went on.
C2_ExactlyOneResponse ==
    (Handled /\ IsRequestWithId(req[1]) /\ stdout_open) =>
        pc = "drain" /\ OneLine

\* C3 (notification drop): a request without an id member has written
\* nothing, called nothing in the core and left ServerState and the
\* open-file state as it found them, whatever its method.
C3_NotificationDrop ==
    (Handled /\ IsRequest(req[1]) /\ ~HasIdMember(req[1])) =>
        /\ pc = "drain"
        /\ wrote = <<>>
        /\ StateUntouched

\* an initialize notification with capabilities was dropped
C3_Witness ==
    /\ Handled
    /\ req[1] = <<Request(NULL, DStr("initialize"), DObj("capabilities" :> NoArgs))>>
    /\ ~server_state.initialized
    /\ server_state.client_capabilities = NULL
    /\ wrote = <<>>

\* the ids of the response lines of an output, in the order written
RECURSIVE ResponseIds(_)
ResponseIds(o) ==
    IF o = <<>> THEN <<>>
    ELSE IF o[1] # NEWLINE /\ "id" \in DOMAIN o[1].json
         THEN <<o[1].json.id>> \o ResponseIds(Tail(o))
         ELSE ResponseIds(Tail(o))

\* the ids of the requests with an id among some lines, in their order
RECURSIVE RequestIds(_)
RequestIds(ls) ==
    IF ls = <<>> THEN <<>>
    ELSE IF IsRequestWithId(ls[1])
         THEN <<IdString(r_json_get(r_json_parse(ls[1]), "id"))>> \o RequestIds(Tail(ls))
         ELSE RequestIds(Tail(ls))

\* the lines of this read that were processed so far
ProcessedLines ==
    SubSeq(lines, 1, Len(lines) - Len(CompleteLines(buffer.data)))

IsPrefix(a, b) == Len(a) <= Len(b) /\ a = SubSeq(b, 1, Len(a))

\* every line written is a response followed by a newline
WholeLines(o) ==
    /\ Len(o) % 2 = 0
    /\ \A i \in 1..Len(o) : (o[i] = NEWLINE) <=> (i % 2 = 0)

\* C4 (response ordering): within the inner while the responses written
\* are those of the requests processed so far, in the order the requests
\* were received, each written before the next line is taken (a prefix of
\* them once the peer closed the stream); and no complete line is left in
\* the buffer when the loop polls or reads again.
C4_ResponseOrdering ==
    /\ pc = "drain" =>
          /\ WholeLines(out)
          /\ Len(CompleteLines(buffer.data)) <= Len(lines)
          /\ IsPrefix(ResponseIds(out), RequestIds(ProcessedLines))
          /\ stdout_open => ResponseIds(out) = RequestIds(ProcessedLines)
    /\ pc \in {"top", "select"} => ~HasMessage(buffer)

\* two requests of one buffer were answered in their order
C4_Witness ==
    /\ pc = "drain"
    /\ Len(ProcessedLines) = 2
    /\ ProcessedLines[1] = <<RunText>>
    /\ ProcessedLines[2] = <<OpenText>>
    /\ ResponseIds(out) = <<"abc", "42">>

\* C5 (id echo): the response to a request with a string id carries that
\* string as its id, and the response to a request with an integer id n
\* carries the decimal string of n.
C5_IdEcho ==
    (Handled /\ IsRequestWithId(req[1]) /\ OneLine) =>
        "id" \in DOMAIN Response /\ Response.id = EchoOf(req[1])

\* C6 (an id of another JSON type counts as absent): a request whose id
\* member is neither a string nor an integer has written nothing and
\* changed nothing.
C6_OtherIdIsAbsent ==
    (Handled /\ IsRequest(req[1]) /\ HasIdMember(req[1])
        /\ IdMember(req[1]).type \notin {"string", "integer"}) =>
        /\ pc = "drain"
        /\ wrote = <<>>
        /\ StateUntouched

\* the tools/call processed last is one the handler rejects
FailingToolCall ==
    \/ ReqTool = NULLSTR
    \/ ReqTool \notin {"openFile", "closeFile", "runCommand", "analyze", "disassemble"}
    \/ ReqTool = "openFile" /\ ReqArgument("filePath") = NULLSTR
    \/ ReqTool = "runCommand" /\ before.file_opened /\ ReqArgument("command") = NULLSTR
    \/ ReqTool = "disassemble" /\ before.file_opened /\ ReqArgument("address") = NULLSTR

\* C7 (a failing tools/call is answered by an error envelope): the response
\* to a tools/call without a tool name, without a required argument or
\* with an unknown tool has a top-level error with code -32602, no
\* top-level result, and the id of the request.
C7_ToolCallErrorEnvelope ==
    (IsToolCall /\ FailingToolCall /\ OneLine) =>
        /\ "error" \in DOMAIN Response
        /\ Response.error.code = -32602
        /\ "result" \notin DOMAIN Response
        /\ "id" \in DOMAIN Response
        /\ Response.id = EchoOf(req[1])

\* C8 (openFile answers with a success envelope): while the output stream
\* is open, a tools/call of openFile with a filePath was answered by one
\* line with a top-level result and no top-level error; its text is
\* "Failed to open file." when the core could not open the path, and
\* "File opened successfully." when it could, and then that file is open.
C8_OpenFileSuccessEnvelope ==
    (IsToolCall /\ ReqTool = "openFile" /\ ReqArgument("filePath") # NULLSTR
        /\ stdout_open) =>
        /\ pc = "drain"
        /\ OneLine
        /\ IsSuccessEnvelope(Response)
        /\ Len(Response.result.content) = 1
        /\ ~BackendOpened => ResultText(Response) = "Failed to open file."
        /\ BackendOpened =>
              /\ ResultText(Response) = "File opened successfully."
              /\ file_opened
              /\ current_file = ReqArgument("filePath")

\* an openFile failed where a file was open, and was answered with the text
C8_Witness ==
    /\ IsToolCall
    /\ ReqTool = "openFile"
    /\ ReqArgument("filePath") = "/bin/cat"
    /\ before.file_opened
    /\ ~BackendOpened
    /\ OneLine
    /\ ResultText(Response) = "Failed to open file."

\* the tool called last failed in the backend
ToolDomainError ==
    \/ ReqTool \in GatedTools /\ ~before.file_opened
    \/ ReqTool = "openFile" /\ ReqArgument("filePath") # NULLSTR /\ ~BackendOpened

\* the tool called last did what it was asked
ToolSucceeded ==
    \/ ReqTool = "openFile" /\ ReqArgument("filePath") # NULLSTR /\ BackendOpened
    \/ ReqTool = "closeFile"
    \/ ReqTool = "runCommand" /\ before.file_opened /\ ReqArgument("command") # NULLSTR
    \/ ReqTool = "analyze" /\ before.file_opened
    \/ ReqTool = "disassemble" /\ before.file_opened /\ ReqArgument("address") # NULLSTR

\* C9 (tool-domain errors carry isError): the response to a tool call that
\* failed in the backend (no file open, or openFile could not open) is a
\* success envelope whose result has isError true, and the result of a
\* tool call that succeeded has not.
C9_ToolErrorsCarryIsError ==
    (IsToolCall /\ OneLine) =>
        /\ ToolDomainError =>
              IsSuccessEnvelope(Response) /\ HasIsError(Response.result)
        /\ ToolSucceeded =>
              IsSuccessEnvelope(Response) /\ ~HasIsError(Response.result)

\* no file is open before any openFile, after a closeFile and after a
\* failed openFile
NoFileOpenStates ==
    file_history \in {"none", "closed", "failed", "failed_after_open"} => ~file_opened

\* with no file open, runCommand, analyze and disassemble answer with the
\* tool error and leave the core alone, whatever their arguments
GatedWithoutFile ==
    (IsToolCall /\ ReqTool \in GatedTools /\ ~before.file_opened /\ stdout_open) =>
        /\ OneLine
        /\ IsNoFileError(Response)
        /\ "id" \in DOMAIN Response
        /\ calls = <<>>
        /\ ~file_opened

\* C10 (precondition ordering, as the code has it): with no file open
\* (before any openFile, after a closeFile, after a failed openFile)
\* runCommand, analyze and disassemble return the "no file" tool error
\* without invoking the core; once an openFile has succeeded and neither a
\* closeFile nor a failed openFile has followed, they do not return it.
C10_PreconditionOrdering ==
    /\ NoFileOpenStates
    /\ GatedWithoutFile
    /\ (IsToolCall /\ ReqTool \in GatedTools /\ OneLine /\ file_history = "opened") =>
          ~IsNoFileError(Response)

\* runCommand ran in the core after a successful openFile
C10_Witness ==
    /\ IsToolCall
    /\ ReqTool = "runCommand"
    /\ ReqArgument("command") = "pdf"
    /\ file_history = "opened"
    /\ OneLine
    /\ IsSuccessEnvelope(Response)
    /\ ResultText(Response) = R2Output("pdf")
    /\ calls = <<"pdf">>

\* C10 as stated: the last conjunct asks for no "no file" error once an
\* openFile has succeeded and no closeFile has followed, a failed openFile
\* in between or not.
C10_AsStated ==
    /\ NoFileOpenStates
    /\ GatedWithoutFile
    /\ (IsToolCall /\ ReqTool \in GatedTools /\ OneLine
          /\ file_history \in {"opened", "failed_after_open"}) =>
          ~IsNoFileError(Response)

\* C11 (closeFile): while the output stream is open, a tools/call of
\* closeFile is answered by one success envelope and no file is open after
\* it; with no file open before, the text is "No file was open.", the core
\* is not called and nothing changes; with a file open before, the core
\* closes it ("o-*"), current_file is cleared and the text is
\* "File closed successfully.".
C11_CloseFile ==
    (IsToolCall /\ ReqTool = "closeFile" /\ stdout_open) =>
        /\ pc = "drain"
        /\ OneLine
        /\ IsSuccessEnvelope(Response)
        /\ Len(Response.result.content) = 1
        /\ ~file_opened
        /\ current_file = ""
        /\ ~before.file_opened =>
              ResultText(Response) = "No file was open." /\ StateUntouched
        /\ before.file_opened =>
              /\ ResultText(Response) = "File closed successfully."
              /\ calls = <<"o-*">>
              /\ server_state = before.server_state

\* a closeFile closed the file that was open
C11_Witness ==
    /\ IsToolCall
    /\ ReqTool = "closeFile"
    /\ before.file_opened
    /\ before.current_file = "/bin/ls"
    /\ OneLine
    /\ ResultText(Response) = "File closed successfully."
    /\ calls = <<"o-*">>
    /\ ~file_opened

\* the string contains the word
Mentions(str, word) ==
    \E i \in 1..(Len(str) - Len(word) + 1) : SubSeq(str, i, i + Len(word) - 1) = word

\* the capabilities the latest initialize recorded do not hold the key
NotDeclared(capability) ==
    LET caps == before.server_state.client_capabilities
    IN  caps = NULL \/ r_json_get(caps.node, capability) = NULL

\* the response is a top-level error -32601 and nothing else
IsMethodError(r) ==
    "error" \in DOMAIN r /\ r.error.code = -32601 /\ "result" \notin DOMAIN r

\* C12 (capability gating): while the output stream is open, a
\* sampling/createMessage request is answered by an error -32601 whose
\* message mentions "sampling" whenever the capabilities recorded by the
\* latest initialize lack the key sampling (or none were recorded), and a
\* roots/list request by an error -32601 whenever they lack the key roots.
C12_CapabilityGating ==
    (Handled /\ IsRequestWithId(req[1]) /\ stdout_open) =>
        /\ (ReqMethod = "sampling/createMessage" /\ NotDeclared("sampling")) =>
              /\ pc = "drain"
              /\ OneLine
              /\ IsMethodError(Response)
              /\ Mentions(Response.error.message, "sampling")
        /\ (ReqMethod = "roots/list" /\ NotDeclared("roots")) =>
              /\ pc = "drain"
              /\ OneLine
              /\ IsMethodError(Response)

\* the methods that are routed to a handler
RoutedMethods ==
    {"initialize", "ping", "tools/list", "tool/list", "tools/call", "tool/call"}

\* C13 (every other method is rejected): while the output stream is open,
\* a request with an id whose method is not initialize, ping, tools/list,
\* tool/list, tools/call or tool/call is answered by one top-level error
\* -32601 that carries the id of the request, and ServerState and the
\* open-file state are as before.
C13_OtherMethodsRejected ==
    (Handled /\ IsRequestWithId(req[1]) /\ ReqMethod \notin RoutedMethods
        /\ stdout_open) =>
        /\ pc = "drain"
        /\ OneLine
        /\ IsMethodError(Response)
        /\ "id" \in DOMAIN Response
        /\ Response.id = EchoOf(req[1])
        /\ StateUntouched

\* the message processed last is a tools/list request with an id
IsListCall ==
    Handled /\ IsRequestWithId(req[1]) /\ ReqMethod \in {"tools/list", "tool/list"}

ReqCursor == r_json_get_str(ReqParams, "cursor")

\* the cursor is the decimal string of c
ParsesTo(cursor, c) == cursor = Decimal(c)

Min(a, b) == IF a < b THEN a ELSE b

\* the catalog entries [c, e) in catalog order
CatalogSlice(c, e) == [j \in 1..(e - c) |-> Tools[c + j]]

\* the result is the page that starts at c, for a page size of 10
IsPageFrom(result, c) ==
    LET e == Min(c + 10, Len(Tools))
    IN  /\ "tools" \in DOMAIN result
        /\ result.tools = CatalogSlice(c, e)
        /\ ("nextCursor" \in DOMAIN result) <=> (e < Len(Tools))
        /\ "nextCursor" \in DOMAIN result => result.nextCursor = Decimal(e)

\* the tools seen when the pages are followed from cursor c on
RECURSIVE Visited(_)
Visited(c) ==
    LET params == IF c = NULLSTR THEN NULL ELSE ToRJson(Args("cursor", DStr(c)))
        page   == (CHOOSE o \in handle_list_tools(params) : ~o.crash).ret
    IN  IF "nextCursor" \in DOMAIN page
        THEN page.tools \o Visited(page.nextCursor)
        ELSE page.tools

\* C14 (pagination): a tools/list request whose cursor is the decimal
\* string of some c in 0..5, or that has no cursor (c = 0), is answered
\* with the catalog entries [c, min(c + 10, 5)) in catalog order, and with
\* nextCursor, the decimal string of that end, exactly when the end is
\* below 5; without a cursor all 5 tools come and no nextCursor, and the
\* pages followed from the start hold every tool once.
C14_Pagination ==
    (IsListCall /\ OneLine) =>
        /\ \A c \in 0..Len(Tools) :
              ParsesTo(ReqCursor, c) =>
                  IsSuccessEnvelope(Response) /\ IsPageFrom(Response.result, c)
        /\ ReqCursor = NULLSTR =>
              /\ IsSuccessEnvelope(Response)
              /\ IsPageFrom(Response.result, 0)
              /\ Len(Response.result.tools) = 5
              /\ "nextCursor" \notin DOMAIN Response.result
              /\ Visited(NULLSTR) = Tools

\* a tools/list from cursor "3" was answered with the last two tools
C14_Witness ==
    /\ IsListCall
    /\ ReqCursor = "3"
    /\ OneLine
    /\ Len(Response.result.tools) = 2
    /\ Response.result.tools[1].name = "analyze"
    /\ Response.result.tools[2].name = "disassemble"

\* the cursor is no number in 0..5: negative, past the catalog or no number
OutOfRangeCursor ==
    ReqCursor # NULLSTR /\ \A c \in 0..Len(Tools) : ~ParsesTo(ReqCursor, c)

\* C15 (cursor clamping): while the output stream is open, a tools/list
\* request whose cursor is negative, greater than the catalog length or
\* unparsable is answered like one without a cursor: with the first page.
C15_CursorClamping ==
    (IsListCall /\ OutOfRangeCursor /\ stdout_open) =>
        /\ pc = "drain"
        /\ OneLine
        /\ IsSuccessEnvelope(Response)
        /\ IsPageFrom(Response.result, 0)

\* the stored pointer refers to live data that is the member of the params
HoldsMemberOf(p, params, key) ==
    IF r_json_get(params, key) = NULL THEN p = NULL
    ELSE p # NULL /\ ~p.freed /\ p.node = r_json_get(params, key)

\* C16 (only initialize writes the session fields): once an initialize
\* request with an id has been processed, initialized is true and
\* client_capabilities and client_info hold the capabilities and the
\* clientInfo of its params; initialized never goes back to false; and a
\* request of any other method leaves the three fields as they were.
C16_SessionFields ==
    (Handled /\ pc = "drain") =>
        /\ (IsRequestWithId(req[1]) /\ ReqMethod = "initialize") =>
              /\ server_state.initialized
              /\ HoldsMemberOf(server_state.client_capabilities, ReqParams, "capabilities")
              /\ HoldsMemberOf(server_state.client_info, ReqParams, "clientInfo")
        /\ before.server_state.initialized => server_state.initialized
        /\ (IsRequest(req[1]) /\ ReqMethod # "initialize") =>
              server_state = before.server_state

\* some line of the sequence is no request
HasMalformed(ls) == \E i \in 1..Len(ls) : ~IsRequest(ls[i])

\* C17 (malformed lines are dropped): a line that is not JSON, is empty or
\* has no string method has written nothing and changed nothing, and the
\* loop goes on with the next line; while the output stream is open, the
\* requests of a read that held such a line are all answered, in order.
C17_MalformedDropped ==
    /\ (Handled /\ ~IsRequest(req[1])) =>
          /\ pc = "drain"
          /\ wrote = <<>>
          /\ StateUntouched
    /\ (pc = "drain" /\ stdout_open /\ HasMalformed(ProcessedLines)) =>
          ResponseIds(out) = RequestIds(ProcessedLines)

\* a request that came after an empty line in the same read was answered
C17_Witness ==
    /\ pc = "drain"
    /\ Len(ProcessedLines) = 2
    /\ ProcessedLines[1] = <<>>
    /\ ProcessedLines[2] = <<RunText>>
    /\ OneLine
    /\ ResponseIds(out) = <<"abc">>

\* C18 (a failed write ends the loop): once the write of a response has
\* failed, no further chunk is appended to the buffer and no further
\* message is taken from it.
C18_WriteFailureStopsLoop ==
    [][write_failed => buffer' = buffer]_vars

\* the bytes of some messages, each with its newline
RECURSIVE Joined(_)
Joined(ms) == IF ms = <<>> THEN <<>> ELSE ms[1] \o <<NEWLINE>> \o Joined(Tail(ms))

\* C20 (buffer invariant): after any appends and extractions the buffer
\* holds no more than its capacity, its bytes are the bytes appended and
\* not yet extracted, in order, and no append has written past the
\* allocation, whatever its length.
C20_BufferInvariant ==
    /\ fr_pc # "crashed"
    /\ buffer.size <= buffer.capacity
    /\ wbuffer.size <= wbuffer.capacity
    /\ Len(buffer.data) = buffer.size
    /\ fr_pc \in {"feed", "drain"} => Joined(msgs) \o buffer.data \o rest = stream

\* the same, for appends of at most the capacity left after one doubling
BufferInvariantUnlessOverflow ==
    (fr_pc # "crashed" /\ buffer.size <= buffer.capacity
        /\ wbuffer.size <= wbuffer.capacity) =>
        /\ Len(buffer.data) = buffer.size
        /\ fr_pc \in {"feed", "drain"} => Joined(msgs) \o buffer.data \o rest = stream

\* C19 (cancellation): the output never ends in a response without its
\* newline; once the stop flag is set no further chunk is read; and the
\* loop then ends with the core released.
C19_Cancellation ==
    /\ [](out = <<>> \/ out[Len(out)] = NEWLINE)
    /\ [][(running = 0 /\ pc = "select") => buffer' = buffer]_vars
    /\ (running = 0) ~> (pc = "done" /\ r_core = NULLSTR)

\* the message processed last is an initialize request that reaches
\* handle_initialize while the session holds a value of an earlier one
IsSecondInitialize ==
    /\ Handled
    /\ IsRequest(req[1])
    /\ HasIdMember(req[1])
    /\ ReqMethod = "initialize"
    /\ \/ before.server_state.client_capabilities # NULL
       \/ before.server_state.client_info # NULL

\* C21 (the stored session values stay valid): client_capabilities and
\* client_info never point into a request tree that was released, so a
\* capability check reads live data; and an initialize that replaces
\* earlier values finds them live, releases them once and does not end
\* the process.
C21_StoredValuesStayValid ==
    /\ ~Dangling(server_state.client_capabilities)
    /\ ~Dangling(server_state.client_info)
    /\ IsSecondInitialize =>
          /\ ~Dangling(before.server_state.client_capabilities)
          /\ ~Dangling(before.server_state.client_info)
          /\ pc # "crashed"

\* the message processed last is a tools/call of openFile with a filePath
\* string, the call that reaches r2_open_file
IsOpenFileCall ==
    IsToolCall /\ ReqTool = "openFile" /\ ReqArgument("filePath") # NULLSTR

\* the last openFile or closeFile call was an openFile that failed
AfterFailedOpen == file_history \in {"failed", "failed_after_open"}

\* C22 (openFile closes the open file first): a tools/call of openFile
\* with a filePath closes the file that is open ("o-*") before it tries
\* the new path, and closes nothing when none is open; when the open
\* fails no file is open afterwards and the tracked current file is
\* empty, so that runCommand, analyze and disassemble then answer with the
\* "no file" tool error without invoking the core; when it succeeds the
\* current file is the new path.
C22_OpenFileClosesFirst ==
    /\ IsOpenFileCall =>
          /\ before.file_opened =>
                /\ Len(calls) >= 4
                /\ calls[1] = "o-*"
                /\ calls[4] = "o " \o ReqArgument("filePath")
          /\ ~before.file_opened => \A i \in 1..Len(calls) : calls[i] # "o-*"
          /\ ~BackendOpened => ~file_opened /\ current_file = ""
          /\ BackendOpened => file_opened /\ current_file = ReqArgument("filePath")
    /\ AfterFailedOpen => ~file_opened
    /\ (IsToolCall /\ ReqTool \in GatedTools /\ AfterFailedOpen /\ stdout_open) =>
          /\ OneLine
          /\ IsNoFileError(Response)
          /\ calls = <<>>

\* runCommand was refused after an openFile that failed where a file was open
C22_Witness ==
    /\ IsToolCall
    /\ ReqTool = "runCommand"
    /\ file_history = "failed_after_open"
    /\ ~before.file_opened
    /\ OneLine
    /\ IsNoFileError(Response)

\* the step in which read returns 0
AtEndOfInput == ~input_ended /\ input_ended'

\* C23 (end of input): a read of length zero ends the loop; the bytes
\* then held, which contain no newline, are not decoded: no message is
\* handed to process_mcp_message, nothing is written and neither the
\* session nor the file history changes; and no complete line is ever
\* left in the buffer when a read is issued, each request with a string
\* or integer id taken from it having been answered with one line while
\* the output stream is open.
C23_EndOfInput ==
    /\ [](input_ended => pc = "done")
    /\ []((pc \in {"top", "select"} \/ input_ended) => ~HasMessage(buffer))
    /\ []((pc = "drain" /\ Handled /\ IsRequestWithId(req[1]) /\ stdout_open) => OneLine)
    /\ [][AtEndOfInput =>
            /\ pc = "select"
            /\ UNCHANGED <<buffer, req, wrote, out, calls, server_state, file_history>>]_vars

\* the input ended while an openFile request without its newline was
\* held: it was never processed
C23_Witness ==
    /\ input_ended
    /\ pc = "done"
    /\ buffer.data = <<OpenText>>
    /\ req = <<>>
    /\ out = <<>>
    /\ file_history = "none"

====
